---- MODULE Spec2Model ----
\* A model of lazylist (src/src/lib.rs): a lazy, reference counted, singly
\* linked list.  RcList<T> = Rc<Thunk<List<T>>>; List<T> = Nil | Cons(T, RcList<T>).
\*
\* A cell of the heap is one Rc<Thunk<List<T>>> allocation.  A handle is the
\* index of its cell: two handles are reference-equal iff they are the same index.
EXTENDS Integers, Sequences, FiniteSets, TLC

VARIABLES
    heap,     \* Seq of cells: the Rc<Thunk<List<T>>> allocations, in allocation order
    srcs,     \* Seq of source iterators moved into from_iter closures
    held,     \* the cells the program holds an RcList handle to
    iters,    \* Seq of iterator cursors (&'a RcList<T> values being stepped)
    last,     \* the last operation called and what it returned
    test,     \* the state of test_fib (idle outside SpecFib)
    rc        \* the reference counts of the cells (kept in SpecRc only)

vars == <<heap, srcs, held, iters, last, test, rc>>

----------------------------------------------------------------------------
\* Bounds of the model.

MaxCells == 3
MaxIters == 1
MaxHandles == 2

\* Element values and the finite source sequences handed to from_iter.
Vals == {1, 2}
Seqs == {<<>>, <<2, 1>>}

----------------------------------------------------------------------------
\* Option<T>
None == [some |-> FALSE]
Some(x) == [some |-> TRUE, v |-> x]

\* enum List<T> { Nil, Cons(T, RcList<T>) }
Nil == [tag |-> "Nil"]
Cons(v, t) == [tag |-> "Cons", val |-> v, tl |-> t]

\* The closures the library hands to lazy!: what each computes is in Produce.
NilProd == [kind |-> "nil"]
PairProd(v, t) == [kind |-> "pair", val |-> v, tl |-> t]
SingleProd(v) == [kind |-> "single", val |-> v]
IterProd(s) == [kind |-> "iter", src |-> s]
FibProd(n0, n1) == [kind |-> "fib", n0 |-> n0, n1 |-> n1]
NoProd == [kind |-> "none"]
NoNode == [tag |-> "none"]

\* list!($val) = Rc::new(lazy!($val)): a fresh cell holding the unevaluated
\* closure.  runs counts the invocations of the closure; made remembers the
\* call that allocated the cell and its arguments.
list(p, made) ==
    [st |-> "thunk", prod |-> p, node |-> NoNode, runs |-> 0, made |-> made]

Inner == [op |-> "inner"]

----------------------------------------------------------------------------
\* u64 arithmetic, as four 16-bit limbs, least significant first.

LimbBase == 2^16
U64Zero == <<0, 0, 0, 0>>
U64One == <<1, 0, 0, 0>>

\* a + b over u64: the wrapped sum and whether the true sum overflowed.
AddU64(a, b) ==
    LET s1 == a[1] + b[1]
        s2 == a[2] + b[2] + (s1 \div LimbBase)
        s3 == a[3] + b[3] + (s2 \div LimbBase)
        s4 == a[4] + b[4] + (s3 \div LimbBase)
    IN  [sum |-> <<s1 % LimbBase, s2 % LimbBase, s3 % LimbBase, s4 % LimbBase>>,
         overflow |-> s4 \div LimbBase > 0]

----------------------------------------------------------------------------
\* The bodies of the closures.  Each takes the heap h and the sources s and
\* gives the node it returns, the heap and sources after it ran, and whether
\* it panicked.

\* nil!(): List::Nil
nilBody(h, s) == [node |-> Nil, heap |-> h, srcs |-> s, panic |-> FALSE]

\* A push closure that takes the receiver's list with it: the receiver's cell
\* is left holding the empty node.
pairMove(p, h, s) ==
    [node |-> Cons(p.val, p.tl),
     heap |-> [h EXCEPT ![p.tl].st = "done", ![p.tl].node = Nil, ![p.tl].prod = NoProd],
     srcs |-> s, panic |-> FALSE]

\* pair!(val, self) in push: Cons(val, self), self being the handle moved in.
pairBody(p, h, s) ==
    [node |-> Cons(p.val, p.tl), heap |-> h, srcs |-> s, panic |-> FALSE]

\* A singleton closure that drops its value: nil!().
singletonEmpty(p, h, s) == nilBody(h, s)

\* A singleton closure that takes the newest cell of the heap as its tail
\* instead of allocating the empty one.
singletonReuse(p, h, s) ==
    [node |-> Cons(p.val, Len(h)), heap |-> h, srcs |-> s, panic |-> FALSE]

\* pair!(val, nil!()) in singleton: nil!() is evaluated inside the closure,
\* so the empty tail is allocated when the cell is forced.
singletonBody(p, h, s) ==
    [node |-> Cons(p.val, Len(h) + 1),
     heap |-> Append(h, list(NilProd, Inner)),
     srcs |-> s, panic |-> FALSE]

\* A from_iter closure that stops one element early.
from_iterShort(p, h, s) ==
    LET it == s[p.src]
    IN  IF it.pos + 1 < Len(it.seq)
        THEN [node |-> Cons(it.seq[it.pos + 1], Len(h) + 1),
              heap |-> Append(h, list(IterProd(p.src), Inner)),
              srcs |-> [s EXCEPT ![p.src].pos = @ + 1, ![p.src].calls = @ + 1],
              panic |-> FALSE]
        ELSE [node |-> Nil, heap |-> h,
              srcs |-> [s EXCEPT ![p.src].calls = @ + 1],
              panic |-> FALSE]

\* from_iter's closure: match iter.next() { Some(val) => Cons(val,
\* from_iter(iter)), None => Nil }.  calls counts the next() calls on the source.
from_iterBody(p, h, s) ==
    LET it == s[p.src]
    IN  IF it.pos < Len(it.seq)
        THEN [node |-> Cons(it.seq[it.pos + 1], Len(h) + 1),
              heap |-> Append(h, list(IterProd(p.src), Inner)),
              srcs |-> [s EXCEPT ![p.src].pos = @ + 1, ![p.src].calls = @ + 1],
              panic |-> FALSE]
        ELSE [node |-> Nil, heap |-> h,
              srcs |-> [s EXCEPT ![p.src].calls = @ + 1],
              panic |-> FALSE]

\* fibs_inner's closure: Cons(n0, fibs_inner(n1, n0 + n1)).  checked: whether
\* the build traps arithmetic overflow; otherwise the sum wraps.
fibs_innerBody(p, h, s, checked) ==
    LET a == AddU64(p.n0, p.n1)
    IN  IF a.overflow /\ checked
        THEN [node |-> NoNode, heap |-> h, srcs |-> s, panic |-> TRUE]
        ELSE [node |-> Cons(p.n0, Len(h) + 1),
              heap |-> Append(h, list(FibProd(p.n1, a.sum), Inner)),
              srcs |-> s, panic |-> FALSE]

\* Running the closure p.
Produce(p, h, s, checked) ==
    CASE p.kind = "nil" -> nilBody(h, s)
      [] p.kind = "pair" -> pairBody(p, h, s)
      [] p.kind = "single" -> singletonBody(p, h, s)
      [] p.kind = "iter" -> from_iterBody(p, h, s)
      [] p.kind = "fib" -> fibs_innerBody(p, h, s, checked)

\* A force that caches nothing: the closure is kept and run again on every call.
ForceNoMemo(c, w, checked) ==
    LET r == Produce(w.heap[c].prod, w.heap, w.srcs, checked)
    IN  [w EXCEPT !.node = r.node, !.srcs = r.srcs,
                  !.heap = [r.heap EXCEPT ![c].runs = @ + 1]]

\* Thunk::force, reached through Deref: the cell's node, computed on the first
\* force and cached.  A world is the heap and the sources; w.node is the forced
\* node, w.panic whether the closure panicked.
Force(c, w, checked) ==
    IF w.heap[c].st = "done"
    THEN [w EXCEPT !.node = w.heap[c].node]
    ELSE LET r == Produce(w.heap[c].prod, w.heap, w.srcs, checked)
         IN  IF r.panic
             THEN [w EXCEPT !.node = NoNode, !.panic = TRUE,
                            !.heap[c].st = "busy", !.heap[c].runs = @ + 1]
             ELSE [w EXCEPT !.node = r.node, !.srcs = r.srcs,
                            !.heap = [r.heap EXCEPT ![c].st = "done",
                                                    ![c].node = r.node,
                                                    ![c].prod = NoProd,
                                                    ![c].runs = @ + 1]]

World == [heap |-> heap, srcs |-> srcs, node |-> NoNode, panic |-> FALSE, log |-> <<>>]

\* *self on an RcList: Rc's Deref, then Thunk's Deref, which forces.  log is
\* the sequence of cells on which force was called, in call order.
Deref(c, w, checked) ==
    LET f == Force(c, w, checked)
    IN  [f EXCEPT !.log = Append(w.log, c)]

----------------------------------------------------------------------------
\* List::head and List::tail, on a forced node.

\* A head that gives a default element for the empty list.
headDefault(n) == IF n.tag = "Cons" THEN Some(n.val) ELSE Some(0)

head(n) == IF n.tag = "Cons" THEN Some(n.val) ELSE None

tail(n) == IF n.tag = "Cons" THEN Some(n.tl) ELSE None

\* A pop that hands back the receiver itself as the rest of the list.
popSelf(c, w) ==
    LET w1 == Deref(c, w, FALSE)
        t == tail(w1.node)
    IN  IF t.some
        THEN LET w2 == Deref(c, w1, FALSE)
                 hd == head(w2.node)
             IN  [w |-> w2,
                  ret |-> IF hd.some THEN Some([head |-> hd.v, tail |-> c]) ELSE None]
        ELSE [w |-> w1, ret |-> None]

\* A pop written as one match on the node, dereferencing the handle once.
popOnce(c, w) ==
    LET w1 == Deref(c, w, FALSE)
    IN  [w |-> w1,
         ret |-> IF w1.node.tag = "Cons"
                 THEN Some([head |-> w1.node.val, tail |-> w1.node.tl])
                 ELSE None]

\* RcListMethods::pop:
\*   self.tail().and_then(|next| self.head().map(|head| (head, next)))
\* Each of self.tail() and self.head() dereferences the handle.
pop(c, w) ==
    LET w1 == Deref(c, w, FALSE)
        t == tail(w1.node)
    IN  IF t.some
        THEN LET w2 == Deref(c, w1, FALSE)
                 hd == head(w2.node)
             IN  [w |-> w2,
                  ret |-> IF hd.some THEN Some([head |-> hd.v, tail |-> t.v]) ELSE None]
        ELSE [w |-> w1, ret |-> None]

\* A next that looks ahead: it also dereferences the cell it advances to.
nextEager(cur, w, checked) ==
    LET w1 == Deref(cur, w, checked)
    IN  IF w1.panic THEN [w |-> w1, cur |-> cur, ret |-> None]
        ELSE IF w1.node.tag = "Cons"
        THEN [w |-> [Deref(w1.node.tl, w1, checked) EXCEPT !.node = w1.node],
              cur |-> w1.node.tl, ret |-> Some(w1.node.val)]
        ELSE [w |-> w1, cur |-> cur, ret |-> None]

\* Iterator::next for &RcList<T>: the cursor cur is the cell the reference
\* points to.
next(cur, w, checked) ==
    LET w1 == Deref(cur, w, checked)
    IN  IF w1.panic THEN [w |-> w1, cur |-> cur, ret |-> None]
        ELSE IF w1.node.tag = "Cons"
        THEN [w |-> w1, cur |-> w1.node.tl, ret |-> Some(w1.node.val)]
        ELSE [w |-> w1, cur |-> cur, ret |-> None]

\* A count that also counts the final None.
RECURSIVE countAll(_, _, _)
countAll(cur, w, n) ==
    LET r == next(cur, w, FALSE)
    IN  IF r.ret.some THEN countAll(r.cur, r.w, n + 1) ELSE [w |-> r.w, ret |-> n + 1]

\* Iterator::count on a copy of the reference: next until None.
RECURSIVE count(_, _, _)
count(cur, w, n) ==
    LET r == next(cur, w, FALSE)
    IN  IF r.ret.some THEN count(r.cur, r.w, n + 1) ELSE [w |-> r.w, ret |-> n]

\* RcListMethods::len
len(c, w) == count(c, w, 0)

----------------------------------------------------------------------------
\* The state after construction: nothing allocated, no call made yet.

Idle == [pc |-> "idle"]

\* No cell, no count.
NoRc == [strong |-> <<>>, user |-> <<>>]

Init ==
    /\ heap = <<>>
    /\ srcs = <<>>
    /\ held = {}
    /\ iters = <<>>
    /\ last = [op |-> "none", h |-> 0, ret |-> None, log |-> <<>>]
    /\ test = Idle
    /\ rc = NoRc

Cells == 1..Len(heap)

\* A handle borrowed by a live cursor cannot be moved.
Borrowed(c) == \E i \in 1..Len(iters) : iters[i].start = c

\* The world w of a finished call becomes the heap and the sources.
Commit(w) ==
    /\ Len(w.heap) <= MaxCells
    /\ heap' = w.heap
    /\ srcs' = w.srcs

\* A new that stores the empty node in the cell directly, with no closure.
NewEvaluated ==
    /\ Len(heap) < MaxCells
    /\ heap' = Append(heap, [list(NoProd, [op |-> "new"]) EXCEPT !.st = "done", !.node = Nil])
    /\ held' = held \cup {Len(heap) + 1}
    /\ last' = [op |-> "new", h |-> 0, ret |-> Some(Len(heap) + 1), log |-> <<>>]
    /\ UNCHANGED <<srcs, iters, test, rc>>

\* List::new: nil!() = Rc::new(lazy!(List::Nil)), a cell holding the closure.
New ==
    /\ Len(heap) < MaxCells
    /\ heap' = Append(heap, list(NilProd, [op |-> "new"]))
    /\ held' = held \cup {Len(heap) + 1}
    /\ last' = [op |-> "new", h |-> 0, ret |-> Some(Len(heap) + 1), log |-> <<>>]
    /\ UNCHANGED <<srcs, iters, test, rc>>

\* List::singleton
Singleton(v) ==
    /\ Len(heap) < MaxCells
    /\ heap' = Append(heap, list(SingleProd(v), [op |-> "singleton", val |-> v]))
    /\ held' = held \cup {Len(heap) + 1}
    /\ last' = [op |-> "singleton", h |-> 0, ret |-> Some(Len(heap) + 1), log |-> <<>>]
    /\ UNCHANGED <<srcs, iters, test, rc>>

\* A push that links the new cell to a copy of the receiver's cell.
PushCopy(h, v, keep) ==
    /\ Len(heap) + 1 < MaxCells
    /\ keep \/ ~Borrowed(h)
    /\ heap' = heap \o <<[heap[h] EXCEPT !.made = Inner],
                          list(PairProd(v, Len(heap) + 1),
                               [op |-> "push", val |-> v, base |-> h])>>
    /\ held' = (IF keep THEN held ELSE held \ {h}) \cup {Len(heap) + 2}
    /\ last' = [op |-> "push", h |-> h, ret |-> Some(Len(heap) + 2), log |-> <<>>]
    /\ UNCHANGED <<srcs, iters, test, rc>>

\* A strict push: it forces the receiver before building the new cell.
PushForce(h, v, keep) ==
    LET w == Deref(h, World, FALSE)
    IN  /\ Len(w.heap) < MaxCells
        /\ keep \/ ~Borrowed(h)
        /\ heap' = Append(w.heap, list(PairProd(v, h), [op |-> "push", val |-> v, base |-> h]))
        /\ srcs' = w.srcs
        /\ held' = (IF keep THEN held ELSE held \ {h}) \cup {Len(w.heap) + 1}
        /\ last' = [op |-> "push", h |-> h, ret |-> Some(Len(w.heap) + 1), log |-> <<>>]
        /\ UNCHANGED <<iters, test, rc>>

\* RcListMethods::push: the handle passed is moved into the new cell's closure.
\* keep: the caller passes a clone (h.clone().push(v)) and still holds h after.
Push(h, v, keep) ==
    /\ Len(heap) < MaxCells
    /\ keep \/ ~Borrowed(h)
    /\ heap' = Append(heap, list(PairProd(v, h), [op |-> "push", val |-> v, base |-> h]))
    /\ held' = (IF keep THEN held ELSE held \ {h}) \cup {Len(heap) + 1}
    /\ last' = [op |-> "push", h |-> h, ret |-> Some(Len(heap) + 1), log |-> <<>>]
    /\ UNCHANGED <<srcs, iters, test, rc>>

\* A strict from_iter: it runs the closure of the first cell at once.
FromIterStrict(seq) ==
    LET w == Deref(Len(heap) + 1,
                   [World EXCEPT
                       !.heap = Append(heap, list(IterProd(Len(srcs) + 1),
                                                  [op |-> "from_iter", seq |-> seq])),
                       !.srcs = Append(srcs, [seq |-> seq, pos |-> 0, calls |-> 0])],
                   FALSE)
    IN  /\ Commit(w)
        /\ held' = held \cup {Len(heap) + 1}
        /\ last' = [op |-> "from_iter", h |-> 0, ret |-> Some(Len(heap) + 1), log |-> <<>>]
        /\ UNCHANGED <<iters, test, rc>>

\* FromIterator::from_iter: the source iterator is moved into the closure.
FromIter(seq) ==
    /\ Len(heap) < MaxCells
    /\ srcs' = Append(srcs, [seq |-> seq, pos |-> 0, calls |-> 0])
    /\ heap' = Append(heap, list(IterProd(Len(srcs) + 1), [op |-> "from_iter", seq |-> seq]))
    /\ held' = held \cup {Len(heap) + 1}
    /\ last' = [op |-> "from_iter", h |-> 0, ret |-> Some(Len(heap) + 1), log |-> <<>>]
    /\ UNCHANGED <<iters, test, rc>>

\* h.head()
CallHead(h) ==
    LET w == Deref(h, World, FALSE)
    IN  /\ Commit(w)
        /\ last' = [op |-> "head", h |-> h, ret |-> head(w.node), log |-> w.log]
        /\ UNCHANGED <<held, iters, test, rc>>

\* h.tail(): the caller now holds the returned clone of the continuation.
CallTail(h) ==
    LET w == Deref(h, World, FALSE)
        r == tail(w.node)
    IN  /\ Commit(w)
        /\ held' = IF r.some THEN held \cup {r.v} ELSE held
        /\ last' = [op |-> "tail", h |-> h, ret |-> r, log |-> w.log]
        /\ UNCHANGED <<iters, test, rc>>

\* h.pop()
CallPop(h) ==
    LET r == pop(h, World)
    IN  /\ Commit(r.w)
        /\ held' = IF r.ret.some THEN held \cup {r.ret.v.tail} ELSE held
        /\ last' = [op |-> "pop", h |-> h, ret |-> r.ret, log |-> r.w.log]
        /\ UNCHANGED <<iters, test, rc>>

\* h.len()
CallLen(h) ==
    LET r == len(h, World)
    IN  /\ Commit(r.w)
        /\ last' = [op |-> "len", h |-> h, ret |-> Some(r.ret), log |-> r.w.log]
        /\ UNCHANGED <<held, iters, test, rc>>

\* let mut it = &h: a new cursor borrowing the handle h.
IterNew(h) ==
    /\ Len(iters) < MaxIters
    /\ iters' = Append(iters, [start |-> h, cur |-> h, out |-> <<>>, fin |-> FALSE])
    /\ last' = [op |-> "iter", h |-> h, ret |-> None, log |-> <<>>]
    /\ UNCHANGED <<heap, srcs, held, test, rc>>

\* A cursor that rewinds to its start when it reaches the end.
IterNextRewind(i) ==
    LET r == next(iters[i].cur, World, FALSE)
    IN  /\ Commit(r.w)
        /\ iters' = [iters EXCEPT ![i].cur = IF r.ret.some THEN r.cur ELSE iters[i].start,
                                   ![i].out = IF r.ret.some THEN Append(@, r.ret.v) ELSE @,
                                   ![i].fin = ~r.ret.some]
        /\ last' = [op |-> "next", h |-> iters[i].cur, ret |-> r.ret, log |-> r.w.log]
        /\ UNCHANGED <<held, test, rc>>

\* A next on a position the iterators share: every cursor standing on the same
\* cell moves with the one that is stepped.
IterNextShared(i) ==
    LET r == next(iters[i].cur, World, FALSE)
    IN  /\ Commit(r.w)
        /\ iters' = [j \in 1..Len(iters) |->
                        IF j = i
                        THEN [iters[j] EXCEPT !.cur = r.cur,
                                              !.out = IF r.ret.some THEN Append(@, r.ret.v) ELSE @,
                                              !.fin = ~r.ret.some]
                        ELSE IF iters[j].cur = iters[i].cur
                        THEN [iters[j] EXCEPT !.cur = r.cur]
                        ELSE iters[j]]
        /\ last' = [op |-> "next", h |-> iters[i].cur, ret |-> r.ret, log |-> r.w.log]
        /\ UNCHANGED <<held, test, rc>>

\* it.next(): out collects what the cursor yielded, fin records a None.
IterNext(i) ==
    LET r == next(iters[i].cur, World, FALSE)
    IN  /\ Commit(r.w)
        /\ iters' = [iters EXCEPT ![i].cur = r.cur,
                                   ![i].out = IF r.ret.some THEN Append(@, r.ret.v) ELSE @,
                                   ![i].fin = ~r.ret.some]
        /\ last' = [op |-> "next", h |-> iters[i].cur, ret |-> r.ret, log |-> r.w.log]
        /\ UNCHANGED <<held, test, rc>>

\* The constructors.
Build ==
    \/ New
    \/ \E v \in Vals : Singleton(v)
    \/ \E h \in held, v \in Vals, keep \in BOOLEAN : Push(h, v, keep)
    \/ \E s \in Seqs : FromIter(s)

\* A program that builds lists and calls the accessors on the handles it holds.
Next ==
    \/ Build
    \/ \E h \in held : CallHead(h)
    \/ \E h \in held : CallTail(h)
    \/ \E h \in held : CallPop(h)
    \/ \E h \in held : CallLen(h)

Spec == Init /\ [][Next]_vars

\* A program that builds lists and steps cursors over them.
NextIter ==
    \/ Build
    \/ \E h \in held : IterNew(h)
    \/ \E i \in 1..Len(iters) : IterNext(i)

SpecIter == Init /\ [][NextIter]_vars

\* let mut a = &h; let mut b = &h: two cursors borrowing the same handle.
IterPair(h) ==
    /\ iters = <<>>
    /\ iters' = <<[start |-> h, cur |-> h, out |-> <<>>, fin |-> FALSE],
                  [start |-> h, cur |-> h, out |-> <<>>, fin |-> FALSE]>>
    /\ last' = [op |-> "iter", h |-> h, ret |-> None, log |-> <<>>]
    /\ UNCHANGED <<heap, srcs, held, test, rc>>

\* A program that builds lists and steps two cursors over one of them, in any
\* order.
NextPair ==
    \/ Build
    \/ \E h \in held : IterPair(h)
    \/ \E i \in 1..Len(iters) : IterNext(i)

SpecPair == Init /\ [][NextPair]_vars

----------------------------------------------------------------------------
\* Reference counts.  rc.strong[c] is the strong count of the Rc of cell c, 0
\* once the cell has been freed; rc.user[c] is the number of handles to c the
\* program holds.

\* The handle a cell of hp owns: the continuation of its evaluated node, or
\* the handle its unevaluated closure has captured; 0 if there is none.
RefOf(hp, c) ==
    IF hp[c].st = "done"
    THEN IF hp[c].node.tag = "Cons" THEN hp[c].node.tl ELSE 0
    ELSE IF hp[c].prod.kind = "pair" THEN hp[c].prod.tl ELSE 0

\* Rc::new for the n - Len(r.strong) cells a closure allocated: each has one
\* handle, owned by the node that was built.
AllocRc(r, n) ==
    [strong |-> r.strong \o [i \in 1..(n - Len(r.strong)) |-> 1],
     user |-> r.user \o [i \in 1..(n - Len(r.user)) |-> 0]]

\* Drop of one handle to c: the count goes down; at 0 the cell is freed and
\* the handle the cell owns is dropped in turn.
RECURSIVE release(_, _, _)
release(strong, hp, c) ==
    IF strong[c] > 1
    THEN [strong EXCEPT ![c] = @ - 1]
    ELSE IF RefOf(hp, c) = 0
    THEN [strong EXCEPT ![c] = 0]
    ELSE release([strong EXCEPT ![c] = 0], hp, RefOf(hp, c))

\* The number of handles the program holds.
RECURSIVE Total(_)
Total(q) == IF q = <<>> THEN 0 ELSE Head(q) + Total(Tail(q))

\* The cells the program holds a handle to.
Users(r) == {c \in 1..Len(r.user) : r.user[c] > 0}

\* List::new, the program owning the handle returned.
RcNew ==
    /\ Len(heap) < MaxCells
    /\ Total(rc.user) < MaxHandles
    /\ heap' = Append(heap, list(NilProd, [op |-> "new"]))
    /\ rc' = [strong |-> Append(rc.strong, 1), user |-> Append(rc.user, 1)]
    /\ held' = Users(rc')
    /\ last' = [op |-> "new", h |-> 0, ret |-> Some(Len(heap) + 1), log |-> <<>>]
    /\ UNCHANGED <<srcs, iters, test>>

\* List::singleton
RcSingleton(v) ==
    /\ Len(heap) < MaxCells
    /\ Total(rc.user) < MaxHandles
    /\ heap' = Append(heap, list(SingleProd(v), [op |-> "singleton", val |-> v]))
    /\ rc' = [strong |-> Append(rc.strong, 1), user |-> Append(rc.user, 1)]
    /\ held' = Users(rc')
    /\ last' = [op |-> "singleton", h |-> 0, ret |-> Some(Len(heap) + 1), log |-> <<>>]
    /\ UNCHANGED <<srcs, iters, test>>

\* RcListMethods::push: one of the program's handles to h is moved into the
\* closure of the new cell, so the count of h does not change.
RcPush(h, v) ==
    /\ Len(heap) < MaxCells
    /\ heap' = Append(heap, list(PairProd(v, h), [op |-> "push", val |-> v, base |-> h]))
    /\ rc' = [strong |-> Append(rc.strong, 1),
              user |-> Append([rc.user EXCEPT ![h] = @ - 1], 1)]
    /\ held' = Users(rc')
    /\ last' = [op |-> "push", h |-> h, ret |-> Some(Len(heap) + 1), log |-> <<>>]
    /\ UNCHANGED <<srcs, iters, test>>

\* h.clone(): Rc::clone, one more handle to the same cell.
RcClone(h) ==
    /\ Total(rc.user) < MaxHandles
    /\ rc' = [strong |-> [rc.strong EXCEPT ![h] = @ + 1],
              user |-> [rc.user EXCEPT ![h] = @ + 1]]
    /\ held' = Users(rc')
    /\ last' = [op |-> "clone", h |-> h, ret |-> Some(h), log |-> <<>>]
    /\ UNCHANGED <<heap, srcs, iters, test>>

\* drop(h): one of the program's handles to h goes out of scope.
RcDrop(h) ==
    /\ rc' = [strong |-> release(rc.strong, heap, h),
              user |-> [rc.user EXCEPT ![h] = @ - 1]]
    /\ held' = Users(rc')
    /\ last' = [op |-> "drop", h |-> h, ret |-> None, log |-> <<>>]
    /\ UNCHANGED <<heap, srcs, iters, test>>

\* h.head(): the force may allocate cells; no handle is made or dropped.
RcHead(h) ==
    LET w == Deref(h, World, FALSE)
    IN  /\ Commit(w)
        /\ rc' = AllocRc(rc, Len(w.heap))
        /\ held' = Users(rc')
        /\ last' = [op |-> "head", h |-> h, ret |-> head(w.node), log |-> w.log]
        /\ UNCHANGED <<iters, test>>

\* A tail that hands out the continuation without counting the new handle.
RcTailBorrow(h) ==
    LET w == Deref(h, World, FALSE)
        r == tail(w.node)
        a == AllocRc(rc, Len(w.heap))
    IN  /\ Commit(w)
        /\ r.some => Total(rc.user) < MaxHandles
        /\ rc' = IF r.some
                 THEN [a EXCEPT !.user[r.v] = @ + 1]
                 ELSE a
        /\ held' = Users(rc')
        /\ last' = [op |-> "tail", h |-> h, ret |-> r, log |-> w.log]
        /\ UNCHANGED <<iters, test>>

\* h.tail(): Some(tail.clone()), a new handle to the continuation's cell.
RcTail(h) ==
    LET w == Deref(h, World, FALSE)
        r == tail(w.node)
        a == AllocRc(rc, Len(w.heap))
    IN  /\ Commit(w)
        /\ r.some => Total(rc.user) < MaxHandles
        /\ rc' = IF r.some
                 THEN [a EXCEPT !.strong[r.v] = @ + 1, !.user[r.v] = @ + 1]
                 ELSE a
        /\ held' = Users(rc')
        /\ last' = [op |-> "tail", h |-> h, ret |-> r, log |-> w.log]
        /\ UNCHANGED <<iters, test>>

\* A program that builds lists and clones, drops and reads the handles it owns.
\* The counts do not depend on the elements: one element value is enough.
NextRc ==
    \/ RcNew
    \/ RcSingleton(1)
    \/ \E h \in held : RcPush(h, 1)
    \/ \E h \in held : RcClone(h)
    \/ \E h \in held : RcDrop(h)
    \/ \E h \in held : RcHead(h)
    \/ \E h \in held : RcTail(h)

SpecRc == Init /\ [][NextRc]_vars

----------------------------------------------------------------------------
\* test_fib: for (i, &x) in fibs().take(100).enumerate() { assert_eq!(x, fib(i)) }

TakeN == 100

\* fibs(): fibs_inner(0, 1) = pair!(0, fibs_inner(1, 0 + 1)), one unevaluated
\* cell.  The build either traps arithmetic overflow or wraps.
InitFib ==
    /\ heap = <<list(FibProd(U64Zero, U64One), [op |-> "fibs"])>>
    /\ srcs = <<>>
    /\ held = {1}
    /\ iters = <<[start |-> 1, cur |-> 1, out |-> <<>>, fin |-> FALSE]>>
    /\ last = [op |-> "iter", h |-> 1, ret |-> None, log |-> <<>>]
    /\ \E checked \in BOOLEAN :
          test = [pc |-> "loop", n |-> TakeN, i |-> 0, x |-> U64Zero, checked |-> checked,
                  k |-> 0, n0 |-> U64Zero, n1 |-> U64One]
    /\ rc = NoRc

\* Take::next with n > 0, then Enumerate::next: one more element is pulled.
FibNext ==
    /\ test.pc = "loop"
    /\ test.n > 0
    /\ LET r == next(iters[1].cur, World, test.checked)
       IN  /\ heap' = r.w.heap
           /\ srcs' = r.w.srcs
           /\ iters' = [iters EXCEPT ![1].cur = r.cur,
                                      ![1].out = IF r.ret.some THEN Append(@, r.ret.v) ELSE @,
                                      ![1].fin = ~r.ret.some /\ ~r.w.panic]
           /\ last' = [op |-> "next", h |-> iters[1].cur, ret |-> r.ret, log |-> r.w.log]
           /\ test' = IF r.w.panic THEN [test EXCEPT !.pc = "panicked", !.n = @ - 1]
                      ELSE IF r.ret.some
                      THEN [test EXCEPT !.pc = "body", !.n = @ - 1, !.x = r.ret.v]
                      ELSE [test EXCEPT !.pc = "passed", !.n = @ - 1]
    /\ UNCHANGED <<held, rc>>

\* Take::next with n = 0: the loop ends without touching the list.
FibExit ==
    /\ test.pc = "loop"
    /\ test.n = 0
    /\ test' = [test EXCEPT !.pc = "passed"]
    /\ UNCHANGED <<heap, srcs, held, iters, last, rc>>

\* The loop body calls fib(i as u64): n0 = 0, n1 = 1, and i iterations to run.
FibCall ==
    /\ test.pc = "body"
    /\ test' = [test EXCEPT !.pc = "fib", !.k = test.i, !.n0 = U64Zero, !.n1 = U64One]
    /\ UNCHANGED <<heap, srcs, held, iters, last, rc>>

\* One iteration of fib's loop: sum = n0 + n1; n0 = n1; n1 = sum.
FibLoop ==
    /\ test.pc = "fib"
    /\ test.k > 0
    /\ LET a == AddU64(test.n0, test.n1)
       IN  test' = IF a.overflow /\ test.checked
                   THEN [test EXCEPT !.pc = "panicked"]
                   ELSE [test EXCEPT !.k = @ - 1, !.n0 = test.n1, !.n1 = a.sum]
    /\ UNCHANGED <<heap, srcs, held, iters, last, rc>>

\* fib returns n0 and assert_eq!(x, fib(i as u64)) compares.
FibAssert ==
    /\ test.pc = "fib"
    /\ test.k = 0
    /\ test' = IF test.x # test.n0 THEN [test EXCEPT !.pc = "failed"]
               ELSE [test EXCEPT !.pc = "loop", !.i = @ + 1]
    /\ UNCHANGED <<heap, srcs, held, iters, last, rc>>

NextFib == FibNext \/ FibExit \/ FibCall \/ FibLoop \/ FibAssert

SpecFib == InitFib /\ [][NextFib]_vars

----------------------------------------------------------------------------
\* Properties.

RangeOf(q) == {q[i] : i \in 1..Len(q)}

\* C1: a cell's closure runs at most once, and exactly once if the cell has been
\* forced: in every step, every cell has run its closure at most once, is
\* evaluated iff it ran, every cell the step forced is evaluated, and an
\* evaluated cell is left exactly as it was (same cached node, no further run).
C1_MemoizedOnce ==
    [][\A c \in 1..Len(heap') :
          /\ heap'[c].runs <= 1
          /\ (heap'[c].st = "done") = (heap'[c].runs = 1)
          /\ (c \in RangeOf(last'.log) => heap'[c].st = "done")
          /\ (c \in Cells /\ heap[c].st = "done" => heap'[c] = heap[c])]_vars

\* A pop that forced the same cell twice, its closure having run once.
C1_Witness ==
    /\ last.op = "pop"
    /\ last.log = <<last.h, last.h>>
    /\ heap[last.h].runs = 1

\* C2: head(push(h, v)) is Some(v) and tail(push(h, v)) is the cell h itself,
\* for the last call made and for every held handle push returned.
C2_PushHeadTail ==
    /\ (last.op = "head" /\ heap[last.h].made.op = "push")
          => last.ret = Some(heap[last.h].made.val)
    /\ (last.op = "tail" /\ heap[last.h].made.op = "push")
          => last.ret = Some(heap[last.h].made.base)
    /\ \A c \in held :
          heap[c].made.op = "push" =>
              LET n == Deref(c, World, FALSE).node
              IN  /\ head(n) = Some(heap[c].made.val)
                  /\ tail(n) = Some(heap[c].made.base)

\* tail was called on a cell push allocated and returned a handle.
C2_Witness ==
    /\ last.op = "tail"
    /\ heap[last.h].made.op = "push"
    /\ last.ret.some

\* C3: a cursor started on the handle from_iter(s) returned yields the elements
\* of s in order and nothing else: what it has yielded is a prefix of s, after
\* Len(s) elements the next step returns None, and once it has returned None
\* it has yielded exactly s.
C3_FromIterOrder ==
    \A i \in 1..Len(iters) :
        LET it == iters[i]
            m == heap[it.start].made
        IN  m.op = "from_iter" =>
                /\ Len(it.out) <= Len(m.seq)
                /\ it.out = SubSeq(m.seq, 1, Len(it.out))
                /\ (Len(it.out) = Len(m.seq) => ~next(it.cur, World, FALSE).ret.some)
                /\ (it.fin => it.out = m.seq)

\* A cursor over from_iter(<<2, 1>>) has yielded both elements and finished.
C3_Witness ==
    \E i \in 1..Len(iters) :
        /\ heap[iters[i].start].made.op = "from_iter"
        /\ iters[i].fin
        /\ Len(iters[i].out) = 2

\* C4: after k steps of next on the infinite list fibs(), no cell beyond the
\* k consumed ones has been forced: the only further cell is the one the
\* cursor stands on, and its closure has not run.
C4_NoForceBeyond ==
    LET k == TakeN - test.n
    IN  /\ Len(heap) <= k + 1
        /\ Len(iters[1].out) <= k
        /\ \A c \in Cells : c > k => heap[c].st = "thunk" /\ heap[c].runs = 0

\* take(100) ran to its end: 100 cells forced, the 101st allocated and untouched.
C4_Witness ==
    /\ test.pc = "passed"
    /\ Len(iters[1].out) = TakeN
    /\ Len(heap) = TakeN + 1
    /\ heap[TakeN + 1].st = "thunk"

\* C5: test_fib passes: every element taken equals fib(i), and neither the
\* list nor fib raises an arithmetic fault.
C5_FibTestPasses ==
    /\ test.pc # "panicked"
    /\ test.pc # "failed"

\* The cells reached from c through the continuations of evaluated nodes.
RECURSIVE Chain(_)
Chain(c) ==
    IF heap[c].st = "done" /\ heap[c].node.tag = "Cons"
    THEN <<c>> \o Chain(heap[c].node.tl)
    ELSE <<c>>

\* C6: len on a list of N elements returns N and forces N + 1 cells, the N
\* value nodes and the terminal empty node, each once; for from_iter(s), N is
\* Len(s); a second call traverses the same N + 1 cells and returns N again.
C6_LenForces ==
    last.op = "len" =>
        LET ch == Chain(last.h)
            N == Len(ch) - 1
            again == len(last.h, World)
        IN  /\ heap[ch[N + 1]].st = "done"
            /\ heap[ch[N + 1]].node = Nil
            /\ last.ret = Some(N)
            /\ last.log = ch
            /\ Cardinality(RangeOf(last.log)) = N + 1
            /\ (heap[last.h].made.op = "from_iter" => N = Len(heap[last.h].made.seq))
            /\ again.ret = N
            /\ again.w.log = last.log
            /\ again.w.heap = heap

\* len returned 2 after forcing three cells.
C6_Witness ==
    /\ last.op = "len"
    /\ last.ret = Some(2)
    /\ Len(last.log) = 3

\* C7: pop(h) is head(h) paired with tail(h): it returns (v, t) exactly when
\* head gives Some(v) and tail gives Some(t), t being the continuation of h's
\* node, and None exactly when h's node is empty; for the last call made and
\* for every held handle, and pop leaves the heap as head or tail would.
C7_PopIsHeadTail ==
    /\ last.op = "pop" =>
          LET n == Deref(last.h, World, FALSE).node
              hd == head(n)
              tl == tail(n)
          IN  /\ last.ret.some = (hd.some /\ tl.some)
              /\ last.ret.some =>
                    /\ last.ret.v = [head |-> hd.v, tail |-> tl.v]
                    /\ last.ret.v.tail = heap[last.h].node.tl
              /\ (~last.ret.some) = (heap[last.h].node = Nil)
    /\ \A c \in held :
          LET w == Deref(c, World, FALSE)
              hd == head(w.node)
              tl == tail(w.node)
              r == pop(c, World)
          IN  /\ r.ret = IF hd.some /\ tl.some
                          THEN Some([head |-> hd.v, tail |-> tl.v]) ELSE None
              /\ r.w.heap = w.heap
              /\ r.w.srcs = w.srcs

\* pop returned an element and the rest of a list built by from_iter.
C7_Witness ==
    /\ last.op = "pop"
    /\ last.ret.some
    /\ heap[last.h].made.op = "from_iter"

\* C8, as stated: one call to pop forces the receiver's cell once.
C8_PopForcesOnce ==
    last.op = "pop" => Len(last.log) = 1

\* C8, amended: one call to pop runs the receiver's closure at most once, but
\* calls force on the receiver twice when the node is Cons (through self.tail()
\* and then self.head()) and once when it is Nil.
C8_PopRunsOnce ==
    last.op = "pop" =>
        /\ last.log = IF last.ret.some THEN <<last.h, last.h>> ELSE <<last.h>>
        /\ heap[last.h].st = "done"
        /\ heap[last.h].runs = 1

\* pop on a cell push allocated returned a pair after two forces.
C8_Witness ==
    /\ last.op = "pop"
    /\ last.ret.some
    /\ Len(last.log) = 2
    /\ heap[last.h].made.op = "push"

\* C9: on a handle whose node is empty, head, tail and pop return None and
\* nothing panics; for the last call made and for every held handle.
C9_EmptyIsNone ==
    /\ (last.op \in {"head", "tail", "pop"} /\ heap[last.h].node = Nil)
          => last.ret = None
    /\ \A c \in held :
          LET w == Deref(c, World, FALSE)
              r == pop(c, World)
          IN  w.node = Nil =>
                  /\ ~w.panic
                  /\ ~r.w.panic
                  /\ head(w.node) = None
                  /\ tail(w.node) = None
                  /\ r.ret = None

\* head returned None on new(), or on the empty cell ending a longer list.
C9_Witness ==
    /\ last.op = "head"
    /\ last.ret = None
    /\ heap[last.h].made.op \in {"new", "inner"}
    /\ \E c \in Cells : heap[c].st = "done" /\ heap[c].node = Nil /\ heap[c].made.op = "inner"

\* What head, tail, iteration and len show of the list at c.
Obs(c) ==
    LET w == Deref(c, World, FALSE)
        t == tail(w.node)
        r1 == next(c, World, FALSE)
        r2 == next(r1.cur, r1.w, FALSE)
    IN  [head |-> head(w.node),
         tailNil |-> t.some /\ Deref(t.v, w, FALSE).node = Nil,
         first |-> r1.ret,
         second |-> r2.ret,
         n |-> len(c, World).ret]

OneElement(v) ==
    [head |-> Some(v), tailNil |-> TRUE, first |-> Some(v), second |-> None, n |-> 1]

\* C10: singleton(v) shows what push(new(), v) shows: head is Some(v), the
\* tail forces to Nil, and iteration yields v and then ends.
C10_SingletonIsPushOnNew ==
    /\ \A c \in held :
          /\ heap[c].made.op = "singleton" => Obs(c) = OneElement(heap[c].made.val)
          /\ (heap[c].made.op = "push" /\ heap[heap[c].made.base].made.op = "new")
                => Obs(c) = OneElement(heap[c].made.val)
    /\ (last.op = "head" /\ heap[last.h].made.op = "singleton")
          => last.ret = Some(heap[last.h].made.val)
    /\ (last.op = "len" /\ heap[last.h].made.op = "singleton")
          => last.ret = Some(1)

\* len was called on singleton(v), so the cell and its empty tail are forced.
C10_Witness ==
    /\ last.op = "len"
    /\ heap[last.h].made.op = "singleton"
    /\ heap[heap[last.h].node.tl].node = Nil

\* The world of a call made when the heap is hp and the sources are sr.
WorldIn(hp, sr) == [heap |-> hp, srcs |-> sr, node |-> NoNode, panic |-> FALSE, log |-> <<>>]

\* The elements a traversal from cur yields in the world w.
RECURSIVE elems(_, _)
elems(cur, w) ==
    LET r == next(cur, w, FALSE)
    IN  IF r.ret.some THEN <<r.ret.v>> \o elems(r.cur, r.w) ELSE <<>>

\* The sequence of elements observed through the handle c when the heap is hp
\* and the sources are sr.
ElemsIn(c, hp, sr) == elems(c, WorldIn(hp, sr))

\* The cells of the heap hp that push allocated, and the cells pushed onto.
PushesIn(hp) == {a \in 1..Len(hp) : hp[a].made.op = "push"}

BasesIn(hp) == {hp[a].made.base : a \in PushesIn(hp)}

\* The cells of the heap hp onto which two different values have been pushed.
SharedBasesIn(hp) ==
    {hp[a].made.base : a \in {x \in PushesIn(hp) : \E b \in PushesIn(hp) :
        hp[b].made.base = hp[x].made.base /\ hp[b].made.val # hp[x].made.val}}

\* What the results of pushing onto a shared base of hp show: the base's cell
\* as tail, and the pushed value followed by the base's elements.
SharedIn(hp, sr) ==
    \A a \in PushesIn(hp) :
        hp[a].made.base \in SharedBasesIn(hp) =>
            /\ hp[a].st = "done" => hp[a].node = Cons(hp[a].made.val, hp[a].made.base)
            /\ hp[a].st = "thunk" => hp[a].prod = PairProd(hp[a].made.val, hp[a].made.base)
            /\ ElemsIn(a, hp, sr) = <<hp[a].made.val>> \o ElemsIn(hp[a].made.base, hp, sr)

\* C11: when two different values are pushed onto the same base, both results
\* have the base's cell as their tail, each result shows its value followed by
\* the base's elements, and no step (a push, or a head, tail, pop or len on
\* any handle) changes the sequence of elements observed through a cell that
\* is, or in this step becomes, the base of a push.  A step that leaves the
\* heap and the sources alone changes neither.
C11_PushShares ==
    [][<<heap', srcs'>> # <<heap, srcs>> =>
          /\ \A c \in BasesIn(heap') \cap Cells :
                ElemsIn(c, heap', srcs') = ElemsIn(c, heap, srcs)
          /\ SharedIn(heap', srcs')]_vars

\* len ran on one of two pushes of different values onto one base, forcing
\* the base the other push shares.
C11_Witness ==
    /\ last.op = "len"
    /\ heap[last.h].made.op = "push"
    /\ heap[last.h].made.base \in SharedBasesIn(heap)
    /\ heap[heap[last.h].made.base].st = "done"

\* C12, as stated: the cell of a handle new() returned is in the evaluated
\* state holding the empty node, with no producer left to run.
C12_NewEvaluated ==
    /\ last.op = "new" => heap[last.ret.v].st = "done"
    /\ \A c \in held :
          heap[c].made.op = "new" =>
              /\ heap[c].st = "done"
              /\ heap[c].node = Nil
              /\ heap[c].prod = NoProd

\* C12, amended: new() returns a handle to a fresh unevaluated cell holding
\* the producer of the empty node; the first force runs that producer once,
\* allocates nothing, forces no other cell and leaves the cell evaluated
\* holding the empty node.
C12_NewDeferred ==
    /\ last.op = "new" => heap[last.ret.v] = list(NilProd, [op |-> "new"])
    /\ \A c \in held :
          heap[c].made.op = "new" =>
              LET w == Deref(c, World, FALSE)
              IN  /\ w.node = Nil
                  /\ w.log = <<c>>
                  /\ Len(w.heap) = Len(heap)
                  /\ w.heap[c].st = "done"
                  /\ w.heap[c].runs = 1
                  /\ \A d \in Cells \ {c} : w.heap[d] = heap[d]
                  /\ heap[c].st = "thunk" => heap[c].prod = NilProd /\ heap[c].runs = 0
                  /\ heap[c].st = "done" => heap[c].node = Nil /\ heap[c].prod = NoProd

\* head was the first call to force a handle new() returned: the producer ran.
C12_Witness ==
    /\ last.op = "head"
    /\ heap[last.h].made.op = "new"
    /\ last.ret = None
    /\ heap[last.h].runs = 1

\* C13: once a cursor's next has returned None, every later next on it
\* returns None and yields nothing more; no step changes the handle a cursor
\* was created from or the elements seen through it, so a new cursor on that
\* handle yields the full sequence again: what the finished cursor yielded.
C13_FinishedStays ==
    [][\A i \in 1..Len(iters) :
          /\ iters'[i].start = iters[i].start
          /\ ElemsIn(iters[i].start, heap', srcs') = ElemsIn(iters[i].start, heap, srcs)
          /\ iters[i].fin =>
                /\ iters'[i].fin
                /\ iters'[i].out = iters[i].out
                /\ ~next(iters[i].cur, World, FALSE).ret.some
                /\ ElemsIn(iters[i].start, heap, srcs) = iters[i].out
                /\ next(iters[i].start, World, FALSE).ret =
                      (IF iters[i].out = <<>> THEN None ELSE Some(iters[i].out[1]))]_vars

\* A cursor over push(push(new(), 1), 2) has yielded 2 and 1 and then None.
C13_Witness ==
    \E i \in 1..Len(iters) :
        /\ iters[i].fin
        /\ iters[i].out = <<2, 1>>
        /\ heap[iters[i].start].made.op = "push"
        /\ last.op = "next"
        /\ last.ret = None

\* What the first force of an unevaluated cell c that push allocated does in
\* the heap hp: it yields Cons(value, receiver), allocates nothing and leaves
\* every other cell, the receiver included, as it was.
PushForcedIn(c, hp, sr) ==
    LET w == Deref(c, WorldIn(hp, sr), FALSE)
    IN  /\ hp[c].runs = 0
        /\ w.node = Cons(hp[c].made.val, hp[c].made.base)
        /\ w.log = <<c>>
        /\ w.srcs = sr
        /\ Len(w.heap) = Len(hp)
        /\ \A d \in 1..Len(hp) : d # c => w.heap[d] = hp[d]

\* C14: push forces nothing: a push step leaves every existing cell, the
\* receiver included, and every source exactly as it was; the cell it
\* allocates is unevaluated, and so is every cell of push until it is first
\* forced; that first force yields Cons(value, receiver) without forcing the
\* receiver or any other cell.
C14_PushForcesNothing ==
    [][/\ (last'.op = "push" /\ Len(heap') = Len(heap) + 1) =>
             /\ last'.log = <<>>
             /\ srcs' = srcs
             /\ \A c \in Cells : heap'[c] = heap[c]
             /\ last'.ret = Some(Len(heap'))
             /\ heap'[Len(heap')].st = "thunk"
             /\ heap'[Len(heap')].made.base = last'.h
       /\ \A c \in 1..Len(heap') :
             heap'[c].made.op = "push" =>
                 /\ heap'[c].st = "thunk" => PushForcedIn(c, heap', srcs')
                 /\ heap'[c].st = "done" =>
                       heap'[c].node = Cons(heap'[c].made.val, heap'[c].made.base)]_vars

\* head forced a cell push allocated; its receiver, a list of one element, is
\* still unevaluated.
C14_Witness ==
    /\ last.op = "head"
    /\ heap[last.h].made.op = "push"
    /\ heap[last.h].st = "done"
    /\ heap[heap[last.h].made.base].made.op = "singleton"
    /\ heap[heap[last.h].made.base].st = "thunk"

\* The source moved into the list whose first cell is c: from_iter calls and
\* sources are in the same order.
SrcOf(c) == Cardinality({d \in 1..c : heap[d].made.op = "from_iter"})

\* C15: from_iter pulls from its source on demand: the call itself pulls
\* nothing; the number of next() calls made on the source is the number of
\* evaluated cells of the list; the k-th cell holds the k-th source element,
\* or Nil after the last; the first force of the next unevaluated cell makes
\* exactly one call; and once the source has returned None (Len(seq) + 1
\* calls) it is not called again.
C15_PullsOnDemand ==
    /\ last.op = "from_iter" => srcs[Len(srcs)].calls = 0 /\ srcs[Len(srcs)].pos = 0
    /\ \A c \in Cells :
          heap[c].made.op = "from_iter" =>
              LET s == SrcOf(c)
                  seq == heap[c].made.seq
                  ch == Chain(c)
                  evaluated == {k \in 1..Len(ch) : heap[ch[k]].st = "done"}
                  end == ch[Len(ch)]
              IN  /\ srcs[s].seq = seq
                  /\ srcs[s].calls = Cardinality(evaluated)
                  /\ srcs[s].calls <= Len(seq) + 1
                  /\ \A k \in evaluated :
                        /\ heap[ch[k]].runs = 1
                        /\ k <= Len(seq) => heap[ch[k]].node = Cons(seq[k], ch[k + 1])
                        /\ k > Len(seq) => k = Len(seq) + 1 /\ heap[ch[k]].node = Nil
                  /\ heap[end].st = "thunk" =>
                        LET w == Deref(end, World, FALSE)
                        IN  /\ heap[end].prod = IterProd(s)
                            /\ w.srcs[s].calls = srcs[s].calls + 1
                            /\ head(w.node) = IF Len(ch) <= Len(seq)
                                               THEN Some(seq[Len(ch)]) ELSE None
                  /\ heap[end].st = "done" =>
                        /\ srcs[s].calls = Len(seq) + 1
                        /\ len(c, World).w.srcs = srcs

\* A cursor has yielded the first element of from_iter(<<2, 1>>) and no more:
\* one cell evaluated, one call made on the source.
C15_Witness ==
    \E i \in 1..Len(iters) :
        /\ heap[iters[i].start].made.op = "from_iter"
        /\ iters[i].out = <<2>>
        /\ srcs[SrcOf(iters[i].start)].calls = 1
        /\ heap[iters[i].cur].st = "thunk"

\* C16: two cursors over the same list, stepped in any order: a step moves at
\* most one of them; what a cursor has yielded only grows, and is always the
\* elements of the list up to where it stands, so that a finished cursor has
\* yielded the whole list (the source sequence, for from_iter); and the
\* closure of every cell has run at most once, whichever cursor forced it.
C16_IndependentCursors ==
    [][/\ \A c \in 1..Len(heap') : heap'[c].runs <= 1
       /\ Len(iters) = 2 =>
             /\ iters'[1] = iters[1] \/ iters'[2] = iters[2]
             /\ \A i \in 1..2 :
                   LET it == iters'[i]
                       all == ElemsIn(it.start, heap', srcs')
                   IN  /\ it.start = iters[i].start
                       /\ Len(it.out) >= Len(iters[i].out)
                       /\ SubSeq(it.out, 1, Len(iters[i].out)) = iters[i].out
                       /\ all = it.out \o ElemsIn(it.cur, heap', srcs')
                       /\ all = ElemsIn(it.start, heap, srcs)
                       /\ it.fin => it.out = all
                       /\ (it.fin /\ heap'[it.start].made.op = "from_iter")
                             => it.out = heap'[it.start].made.seq]_vars

\* The first cursor has finished from_iter(<<2, 1>>); the second has just
\* taken its first step, over a cell the first one forced.
C16_Witness ==
    /\ Len(iters) = 2
    /\ iters[1].fin
    /\ iters[1].out = <<2, 1>>
    /\ iters[2].out = <<2>>
    /\ last.op = "next"
    /\ last.h = iters[2].start
    /\ heap[last.h].runs = 1

\* In the heap hp, d is c or is reached from c through at most n handles
\* owned by cells.
RECURSIVE owns(_, _, _, _)
owns(hp, c, d, n) ==
    c = d \/ (n > 0 /\ RefOf(hp, c) # 0 /\ owns(hp, RefOf(hp, c), d, n - 1))

\* The counts r are right for the heap hp: the count of a cell is the number
\* of handles to it, those of the program and those owned by live cells; a
\* cell is live exactly while there is such a handle, which is exactly while
\* it is reached from a handle of the program.
CountedIn(hp, r) ==
    /\ Len(r.strong) = Len(hp)
    /\ Len(r.user) = Len(hp)
    /\ \A c \in 1..Len(hp) :
          LET owners == {d \in 1..Len(hp) : r.strong[d] > 0 /\ RefOf(hp, d) = c}
          IN  /\ r.strong[c] = r.user[c] + Cardinality(owners)
              /\ (r.strong[c] > 0) = (r.user[c] > 0 \/ owners # {})
              /\ (r.strong[c] > 0) = (\E h \in Users(r) : owns(hp, h, c, Len(hp)))

\* C17: in every state the count of a cell is the number of handles to it
\* (held by the program, by an evaluated Cons node or by an unevaluated
\* closure), and a cell is live exactly while it has one, so that a cell
\* reached from a handle of the program is never freed.  clone and tail add
\* one handle to an existing cell and copy nothing.  A drop frees the cell
\* only if the handle was its last, and then goes on down the handles the
\* freed cells owned: every cell it frees had a count of 1, the first cell
\* with another handle only loses one count, and no cell beyond is touched.
C17_CountedLifetime ==
    [][/\ CountedIn(heap', rc')
       /\ last'.op = "clone" =>
             /\ heap' = heap
             /\ rc'.strong = [rc.strong EXCEPT ![last'.h] = @ + 1]
       /\ (last'.op = "tail" /\ last'.ret.some) =>
             LET t == last'.ret.v
             IN  /\ heap'[last'.h].node = Cons(heap'[last'.h].node.val, t)
                 /\ rc'.strong[t] = (IF t \in Cells THEN rc.strong[t] ELSE 1) + 1
                 /\ \A c \in Cells \ {t} : rc'.strong[c] = rc.strong[c]
       /\ last'.op = "drop" =>
             LET h == last'.h
                 freed == {c \in Cells : rc.strong[c] > 0 /\ rc'.strong[c] = 0}
                 next_(c) == c = h \/ \E d \in freed : RefOf(heap, d) = c
             IN  /\ heap' = heap
                 /\ \A c \in freed : next_(c) /\ rc.strong[c] = 1 /\ rc'.user[c] = 0
                 /\ \A c \in Cells \ freed :
                       rc'.strong[c] = IF next_(c) THEN rc.strong[c] - 1 ELSE rc.strong[c]]_vars

\* A drop freed two cells in a row and stopped at a third, still live.
C17_Witness ==
    /\ last.op = "drop"
    /\ rc.strong[last.h] = 0
    /\ RefOf(heap, last.h) # 0
    /\ rc.strong[RefOf(heap, last.h)] = 0
    /\ RefOf(heap, RefOf(heap, last.h)) # 0
    /\ rc.strong[RefOf(heap, RefOf(heap, last.h))] > 0

\* In the heap hp, d is reached from c by following between 1 and n
\* continuations of evaluated nodes.
RECURSIVE reaches(_, _, _, _)
reaches(hp, c, d, n) ==
    IF n = 0 \/ hp[c].st # "done" \/ hp[c].node.tag # "Cons"
    THEN FALSE
    ELSE hp[c].node.tl = d \/ reaches(hp, hp[c].node.tl, d, n - 1)

\* C18: the continuation references between cells form a directed acyclic
\* graph: no cell reaches itself by following continuations; the cell a cell
\* refers to was either allocated before it (the receiver of a push) or is a
\* cell allocated by the force that evaluated it, not yet in the heap before
\* that step; and a reference, once made, is never redirected.
C18_Acyclic ==
    [][\A c \in 1..Len(heap') :
          LET t == RefOf(heap', c)
          IN  /\ ~reaches(heap', c, c, Len(heap'))
              /\ t # 0 =>
                    /\ t \in 1..Len(heap')
                    /\ t # c
                    /\ t < c => heap'[c].made.op = "push" /\ t = heap'[c].made.base
                    /\ t > c => heap'[c].made.op # "push" /\ heap'[t].made = Inner
                    /\ (c \in Cells /\ RefOf(heap, c) = 0) => t > Len(heap)
                    /\ (c \in Cells /\ RefOf(heap, c) # 0) => t = RefOf(heap, c)]_vars

\* A cell of push refers back to an older cell, a singleton, whose own
\* continuation is the cell its force allocated.
C18_Witness ==
    \E c, d \in Cells :
        /\ heap[c].st = "done" /\ heap[c].node.tag = "Cons" /\ heap[c].node.tl = d
        /\ d < c
        /\ heap[d].st = "done" /\ heap[d].node.tag = "Cons" /\ heap[d].node.tl > c

====
